---- MODULE Spec2Model ----
(***************************************************************************)
(* nodeChat: the Socket.IO chat server (userSetup, joinNodeAndLogTransition, *)
(* sendMessage, getRecommendation, disconnect) over the four mongoose       *)
(* collections, together with the browser client that drives it (main.js,  *)
(* socket.js part).  Every await of a handler is one step: the store        *)
(* operation takes effect and the handler runs on to its next await.        *)
(***************************************************************************)
EXTENDS Bags, FiniteSets, Integers, Sequences, TLC

\* ---------------------------------------------------------------- bounds
MaxEvents == 2      \* client events (raw ones included) in one behaviour
MaxRaw == 1         \* raw events among them
MaxInFlight == 2    \* handlers already awaiting when a new event is accepted
MaxMessages == 52   \* rows in the Message collection of SpecHistory
MaxFailures == 1    \* store calls that reject in one behaviour

\* ------------------------------------------------------- program constants
HistoryLimit == 50  \* .limit(50) of the history query

\* ------------------------------------------------------------ value sets
Conns == {"c1", "c2"}                 \* socket connections
Keys == {"A", "B"}                    \* room keys a user can type
NoKey == ""                           \* null / empty key (falsy)
LocalIds == {"t1", "t2"}              \* localStorage userLocalId values
NoId == 0                             \* null / undefined id (falsy)
Dwell == {5}                          \* dwell times (seconds) a client measures
GhostId == 0 - 1                      \* a well-formed ObjectId of no document

\* the userLocalId and userNickname each browser keeps in localStorage
LocalIdOf(c) == IF c = "c1" THEN "t1" ELSE "t2"
NicknameOf(c) == IF c = "c1" THEN "n1" ELSE "n2"

VARIABLES
  users,        \* User collection: Seq of [localId, nickname]; _id = index
  nodes,        \* Node collection: Seq of [roomKey, visitCount, messageCount, creatorId]
  transitions,  \* Transition collection: Seq of rows
  messages,     \* Message collection: Seq of rows, in insertion order
  rooms,        \* Socket.IO adapter: the room keys each socket is joined to
  connected,    \* socket still connected
  handlers,     \* async handlers suspended at an await (a bag)
  nEvents,      \* number of client events so far
  nRaw,         \* number of raw events so far
  cUserId,      \* client: currentUser.id
  cRoomKey,     \* client: currentRoomKey
  cEntryTime,   \* client: nodeEntryTime is set
  cScreen,      \* client: which screen is shown
  cKeyInput,    \* client: roomKeyInput.value
  cRecBtn,      \* client: key bound to the recommendation button
  sessions,     \* emitted sessionEstablished replies
  lastSetup,    \* per localId, the nickname of the userSetup applied last
  bcasts,       \* receiveMessage broadcasts made
  hist,         \* history replies delivered
  recs,         \* recommendationResult replies delivered (a bag)
  dropped,      \* events a handler's guard returned on: [conn, kind]
  failed,       \* number of store calls that rejected
  hotReplies    \* responses of GET /hot-nodes

store == <<users, nodes, transitions, messages>>
client == <<cUserId, cRoomKey, cEntryTime, cScreen, cKeyInput, cRecBtn>>
logs == <<sessions, lastSetup, bcasts, hist, recs, dropped, failed,
         hotReplies>>
vars == <<users, nodes, transitions, messages, rooms, connected, handlers,
          nEvents, nRaw, cUserId, cRoomKey, cEntryTime, cScreen, cKeyInput,
          cRecBtn, sessions, lastSetup, bcasts, hist, recs, dropped, failed,
          hotReplies>>

\* ------------------------------------------------------------ the store
Min(a, b) == IF a < b THEN a ELSE b

Idx(s) == 1..Len(s)

\* documents of a collection matching a filter, lowest _id first
UserMatches(us, localId) == {i \in Idx(us) : us[i].localId = localId}
NodeMatches(ns, key) == {i \in Idx(ns) : ns[i].roomKey = key}
First(S) == CHOOSE i \in S : \A j \in S : i <= j

\* User.findById
UserExists(us, id) == id \in Idx(us)

\* a check-free insert in place of the upsert: every setup adds a document
UserInsert(us, localId, nickname) ==
  Append(us, [localId |-> localId, nickname |-> nickname])

\* User.findOneAndUpdate({localId}, {$set: {nickname, lastSeenAt},
\*   $setOnInsert: {localId, createdAt}}, {upsert: true, new: true})
UserUpsert(us, localId, nickname) ==
  IF UserMatches(us, localId) # {}
  THEN [us EXCEPT ![First(UserMatches(us, localId))].nickname = nickname]
  ELSE Append(us, [localId |-> localId, nickname |-> nickname])

UserIdOf(us, localId) == First(UserMatches(us, localId))

\* Node.findOne({roomKey})
NodeFindOne(ns, key) ==
  IF NodeMatches(ns, key) = {} THEN NoId ELSE First(NodeMatches(ns, key))

\* a check-free insert in place of the upsert: every call adds a document
NodeInsert(ns, key, inc, creator) ==
  Append(ns, [roomKey |-> key, visitCount |-> inc, messageCount |-> 0,
              creatorId |-> creator])

\* the update without {upsert: true}: a missing key stays missing
NodeUpdateOnly(ns, key, inc, creator) ==
  IF NodeMatches(ns, key) # {}
  THEN [ns EXCEPT ![First(NodeMatches(ns, key))].visitCount = @ + inc]
  ELSE ns

\* Node.findOneAndUpdate({roomKey}, {$inc: {visitCount: inc},
\*   $setOnInsert: {roomKey, creatorId}}, {upsert: true, new: true})
NodeUpsert(ns, key, inc, creator) ==
  IF NodeMatches(ns, key) # {}
  THEN [ns EXCEPT ![First(NodeMatches(ns, key))].visitCount = @ + inc]
  ELSE Append(ns, [roomKey |-> key, visitCount |-> inc, messageCount |-> 0,
                   creatorId |-> creator])

\* an update that matches the room and increments nothing
NodeKeepMessages(ns, id) == ns

\* Node.updateOne({_id}, {$inc: {messageCount: 1}})
NodeIncMessages(ns, id) ==
  IF id \in Idx(ns) THEN [ns EXCEPT ![id].messageCount = @ + 1] ELSE ns

\* the row of Transition.create
TransitionRow(userId, fromId, toId, ttype, dur) ==
  [userId |-> userId, fromNodeId |-> fromId, toNodeId |-> toId,
   transitionType |-> ttype, duration |-> dur]

\* the row of Message.create
MessageRow(nodeId, userId, createdAt) ==
  [nodeId |-> nodeId, userId |-> userId, createdAt |-> createdAt]

\* createdAt default Date.now (milliseconds): the millisecond in which the
\* newest row was created, or a later one
Now(ms) ==
  IF ms = <<>> THEN {1}
  ELSE {ms[Len(ms)].createdAt, ms[Len(ms)].createdAt + 1}

\* Message.find({nodeId}): ids of the rows, in insertion order
RECURSIVE RoomMessages(_, _, _)
RoomMessages(ms, nodeId, i) ==
  IF i > Len(ms) THEN <<>>
  ELSE IF ms[i].nodeId = nodeId
       THEN <<i>> \o RoomMessages(ms, nodeId, i + 1)
       ELSE RoomMessages(ms, nodeId, i + 1)

\* .sort({createdAt: 1}).limit(n) over the rows S: a row of least createdAt
\* comes first; createdAt is the only sort key, so rows of equal createdAt
\* come in whatever order the server's sort leaves them
RECURSIVE SortLimit(_, _, _)
SortLimit(ms, S, n) ==
  IF n = 0 \/ S = {} THEN {<<>>}
  ELSE LET lo == {i \in S : \A j \in S : ms[i].createdAt <= ms[j].createdAt}
       IN  UNION {{<<i>> \o t : t \in SortLimit(ms, S \ {i}, n - 1)} : i \in lo}

\* Message.find({nodeId}).sort({createdAt: 1}).limit(50): the results the
\* query can give, each a sequence of row ids
History(ms, nodeId) ==
  SortLimit(ms, {i \in Idx(ms) : ms[i].nodeId = nodeId}, HistoryLimit)

\* history.map(msg => msg.userId._id ...) after populate("userId"): a row
\* whose user document is missing populates to null and the map throws
HistoryFormats(ms, us, h) == \A k \in Idx(h) : UserExists(us, ms[h[k]].userId)

\* ------------------------------------------------------- Socket.IO rooms
\* socket.leave(key)
SocketLeave(rs, c, key) == [rs EXCEPT ![c] = @ \ {key}]
\* socket.join(key)
SocketJoin(rs, c, key) == [rs EXCEPT ![c] = @ \cup {key}]
\* io.emit: every connected socket
EmitAll(conn, c) == {d \in Conns : conn[d]}
\* socket.emit of socket c: that socket, while it is connected
SocketEmit(conn, c) == {d \in {c} : conn[d]}
\* io.to(key): the sockets of the room that are still connected
RoomTargets(rs, conn, key) == {c \in Conns : key \in rs[c] /\ conn[c]}

\* ------------------------------------------------- handlers at an await
H0 == [conn |-> "c1", kind |-> "", pc |-> "", userId |-> NoId,
       localId |-> "", nickname |-> "", fromKey |-> NoKey, toKey |-> NoKey,
       dur |-> 0, ttype |-> "", fromId |-> NoId, toId |-> NoId, msgId |-> 0,
       since |-> 0, fresh |-> FALSE]

\* socket.on("userSetup"): runs to the await of User.findOneAndUpdate
userSetup(c, localId, nickname) ==
  SetToBag({[H0 EXCEPT !.conn = c, !.kind = "userSetup", !.pc = "upsert",
                       !.localId = localId, !.nickname = nickname]})

\* the join handler without its guard: every payload reaches the store
joinUnguarded(c, userId, fromKey, toKey, dur, ttype) ==
  SetToBag({[H0 EXCEPT !.conn = c, !.kind = "join",
              !.pc = IF fromKey # NoKey THEN "from" ELSE "to",
              !.userId = userId, !.fromKey = fromKey, !.toKey = toKey,
              !.dur = dur, !.ttype = ttype, !.since = Len(messages),
              !.fresh = (NodeMatches(nodes, toKey) = {})]})

\* socket.on("joinNodeAndLogTransition"): the guard, then the first await.
\* since / fresh remember the store at receipt: the number of messages
\* persisted so far and whether the destination key was still unseen.
joinNodeAndLogTransition(c, userId, fromKey, toKey, dur, ttype) ==
  IF userId = NoId \/ toKey = NoKey THEN EmptyBag
  ELSE SetToBag({[H0 EXCEPT !.conn = c, !.kind = "join",
                   !.pc = IF fromKey # NoKey THEN "from" ELSE "to",
                   !.userId = userId, !.fromKey = fromKey, !.toKey = toKey,
                   !.dur = dur, !.ttype = ttype, !.since = Len(messages),
                   !.fresh = (NodeMatches(nodes, toKey) = {})]})

\* socket.on("sendMessage"): runs to the await of Node.findOne
sendMessage(c, userId, nodeKey) ==
  SetToBag({[H0 EXCEPT !.conn = c, !.kind = "send", !.pc = "findOne",
                       !.userId = userId, !.toKey = nodeKey]})

\* socket.on("getRecommendation"): runs to the await of Node.aggregate
getRecommendation(c, roomKey) ==
  SetToBag({[H0 EXCEPT !.conn = c, !.kind = "rec", !.pc = "aggregate",
                       !.toKey = roomKey]})

\* the handler h has finished / has moved on to its next await as h2
Finish(h) == handlers (-) SetToBag({h})
Replace(h, h2) == Finish(h) (+) SetToBag({h2})

\* ------------------------------------------------------------ the client
\* goToNode + emitJoinNodeAndLogTransition + emitGetRecommendation; uid is
\* currentUser.id, hs the handlers the server already holds
goToNode(c, uid, nodeKey, ttype, hs) ==
  IF nodeKey = NoKey \/ uid = NoId
  THEN /\ handlers' = hs
       /\ UNCHANGED <<cRoomKey, cEntryTime>>
  ELSE \E dur \in (IF cEntryTime[c] THEN Dwell ELSE {0}) :
         /\ handlers' = hs
              (+) joinNodeAndLogTransition(c, uid, cRoomKey[c], nodeKey, dur,
                                           ttype)
              (+) getRecommendation(c, nodeKey)
         /\ cRoomKey' = [cRoomKey EXCEPT ![c] = nodeKey]
         /\ cEntryTime' = [cEntryTime EXCEPT ![c] = TRUE]

CanAct(c) ==
  /\ connected[c]
  /\ nEvents < MaxEvents
  /\ BagCardinality(handlers) < MaxInFlight

\* handleJoinChat: the user types a room key on the entry screen and
\* presses the entry button; emitUserSetup with the stored nickname
handleJoinChat(c, key) ==
  /\ CanAct(c)
  /\ cScreen[c] = "entry"
  /\ cKeyInput' = [cKeyInput EXCEPT ![c] = key]
  /\ handlers' = handlers (+) userSetup(c, LocalIdOf(c), NicknameOf(c))
  /\ nEvents' = nEvents + 1
  /\ UNCHANGED <<store, rooms, connected, logs, nRaw,
                 cUserId, cRoomKey, cEntryTime, cScreen, cRecBtn>>

\* handleLeaveChat: the leave button of the chat screen
handleLeaveChat(c) ==
  /\ nEvents < MaxEvents
  /\ cScreen[c] = "chat"
  /\ cRoomKey' = [cRoomKey EXCEPT ![c] = NoKey]
  /\ cEntryTime' = [cEntryTime EXCEPT ![c] = FALSE]
  /\ cScreen' = [cScreen EXCEPT ![c] = "entry"]
  /\ nEvents' = nEvents + 1
  /\ UNCHANGED <<store, rooms, connected, handlers, nRaw, logs,
                 cUserId, cKeyInput, cRecBtn>>

\* the texts a user sends from the message box
Texts == {"hi"} \cup {"/go " \o k : k \in Keys}
\* text.startsWith("/go ") ? text.substring(4).trim() : none
GoKey(text) ==
  IF \E k \in Keys : text = "/go " \o k
  THEN CHOOSE k \in Keys : text = "/go " \o k
  ELSE NoKey

\* emitSendMessage
emitSendMessage(c) ==
  /\ handlers' =
       IF cRoomKey[c] = NoKey \/ cUserId[c] = NoId THEN handlers
       ELSE handlers (+) sendMessage(c, cUserId[c], cRoomKey[c])
  /\ UNCHANGED <<cRoomKey, cEntryTime>>

\* handleMessageInput: "/go <key>" moves, any other text is sent
handleMessageInput(c, text) ==
  /\ CanAct(c)
  /\ cScreen[c] = "chat"
  /\ IF GoKey(text) # NoKey
     THEN goToNode(c, cUserId[c], GoKey(text), "GO_COMMAND", handlers)
     ELSE emitSendMessage(c)
  /\ nEvents' = nEvents + 1
  /\ UNCHANGED <<store, rooms, connected, logs, nRaw,
                 cUserId, cScreen, cKeyInput, cRecBtn>>

\* recommendBtn.onclick set by setRecommendationButton
recommendClick(c) ==
  /\ CanAct(c)
  /\ cScreen[c] = "chat"
  /\ cRecBtn[c] # NoKey
  /\ goToNode(c, cUserId[c], cRecBtn[c], "RECOMMENDATION", handlers)
  /\ nEvents' = nEvents + 1
  /\ UNCHANGED <<store, rooms, connected, logs, nRaw,
                 cUserId, cScreen, cKeyInput, cRecBtn>>

\* --------------------------------------------------- userSetup handler
\* await User.findOneAndUpdate, then socket.emit("sessionEstablished"); a
\* connected client runs its sessionEstablished callback: currentUser.id is
\* set, goToNode(roomKeyInput.value, "INITIAL"), showChatScreen
userSetupUpsert(h) ==
  /\ h.kind = "userSetup" /\ h.pc = "upsert"
  /\ users' = UserUpsert(users, h.localId, h.nickname)
  /\ LET uid == UserIdOf(users', h.localId)
     IN  /\ sessions' = sessions \cup
               {[localId |-> h.localId, userId |-> uid,
                 nickname |-> users'[uid].nickname]}
         /\ lastSetup' = [lastSetup EXCEPT ![h.localId] = h.nickname]
         /\ IF connected[h.conn]
            THEN /\ cUserId' = [cUserId EXCEPT ![h.conn] = uid]
                 /\ goToNode(h.conn, uid, cKeyInput[h.conn], "INITIAL",
                             Finish(h))
                 /\ cScreen' = [cScreen EXCEPT ![h.conn] = "chat"]
                 /\ cKeyInput' = [cKeyInput EXCEPT ![h.conn] = NoKey]
            ELSE /\ handlers' = Finish(h)
                 /\ UNCHANGED <<cUserId, cRoomKey, cEntryTime, cScreen,
                                cKeyInput>>
  /\ UNCHANGED <<nodes, transitions, messages, rooms, connected, nEvents,
                 nRaw, bcasts, hist, recs, dropped, failed, hotReplies,
                 cRecBtn>>

\* ------------------------------------- joinNodeAndLogTransition handler
\* a source resolution that counts a visit, like the destination's
joinFromNodeCounting(h) ==
  /\ h.kind = "join" /\ h.pc = "from"
  /\ nodes' = NodeUpsert(nodes, h.fromKey, 1, NoId)
  /\ handlers' = Replace(h, [h EXCEPT !.pc = "to",
                                      !.fromId = NodeFindOne(nodes', h.fromKey)])
  /\ UNCHANGED <<users, transitions, messages, rooms, connected, nEvents,
                 nRaw, client, logs>>

\* await Node.findOneAndUpdate for fromNodeKey (no $inc)
joinFromNode(h) ==
  /\ h.kind = "join" /\ h.pc = "from"
  /\ nodes' = NodeUpsert(nodes, h.fromKey, 0, NoId)
  /\ handlers' = Replace(h, [h EXCEPT !.pc = "to",
                                      !.fromId = NodeFindOne(nodes', h.fromKey)])
  /\ UNCHANGED <<users, transitions, messages, rooms, connected, nEvents,
                 nRaw, client, logs>>

\* a destination resolution that leaves the count to a later step
joinToNodeUncounted(h) ==
  /\ h.kind = "join" /\ h.pc = "to"
  /\ nodes' = NodeUpsert(nodes, h.toKey, 0, h.userId)
  /\ handlers' = Replace(h, [h EXCEPT !.pc = "create",
                                      !.toId = NodeFindOne(nodes', h.toKey)])
  /\ UNCHANGED <<users, transitions, messages, rooms, connected, nEvents,
                 nRaw, client, logs>>

\* await Node.findOneAndUpdate for toNodeKey ($inc visitCount)
joinToNode(h) ==
  /\ h.kind = "join" /\ h.pc = "to"
  /\ nodes' = NodeUpsert(nodes, h.toKey, 1, h.userId)
  /\ handlers' = Replace(h, [h EXCEPT !.pc = "create",
                                      !.toId = NodeFindOne(nodes', h.toKey)])
  /\ UNCHANGED <<users, transitions, messages, rooms, connected, nEvents,
                 nRaw, client, logs>>

\* one Transition document per user, rewritten on every room change
joinTransitionUpsert(h) ==
  /\ h.kind = "join" /\ h.pc = "create"
  /\ LET row == TransitionRow(h.userId, h.fromId, h.toId, h.ttype, h.dur)
         own == {i \in Idx(transitions) : transitions[i].userId = h.userId}
     IN  transitions' = IF own = {} THEN Append(transitions, row)
                        ELSE [transitions EXCEPT ![First(own)] = row]
  /\ rooms' = SocketJoin(IF h.fromKey # NoKey
                         THEN SocketLeave(rooms, h.conn, h.fromKey)
                         ELSE rooms,
                         h.conn, h.toKey)
  /\ handlers' = Replace(h, [h EXCEPT !.pc = "find"])
  /\ UNCHANGED <<users, nodes, messages, connected, nEvents, nRaw,
                 client, logs>>

\* await Transition.create, then socket.leave(fromNodeKey) and
\* socket.join(toNodeKey), up to the await of Message.find
joinTransition(h) ==
  /\ h.kind = "join" /\ h.pc = "create"
  /\ transitions' = Append(transitions,
        TransitionRow(h.userId, h.fromId, h.toId, h.ttype, h.dur))
  /\ rooms' = SocketJoin(IF h.fromKey # NoKey
                         THEN SocketLeave(rooms, h.conn, h.fromKey)
                         ELSE rooms,
                         h.conn, h.toKey)
  /\ handlers' = Replace(h, [h EXCEPT !.pc = "find"])
  /\ UNCHANGED <<users, nodes, messages, connected, nEvents, nRaw,
                 client, logs>>

\* await Message.find(...).populate, the map, socket.emit("history")
joinHistory(h) ==
  /\ h.kind = "join" /\ h.pc = "find"
  /\ \E found \in History(messages, h.toId) :
         hist' = IF HistoryFormats(messages, users, found) /\ connected[h.conn]
                 THEN hist \cup {[conn |-> h.conn, key |-> h.toKey,
                                   nodeId |-> h.toId, since |-> h.since,
                                   fresh |-> h.fresh, msgs |-> found,
                                   to |-> SocketEmit(connected, h.conn)]}
                 ELSE hist
  /\ handlers' = Finish(h)
  /\ UNCHANGED <<store, rooms, connected, nEvents, nRaw, client,
                 sessions, lastSetup, bcasts, recs, dropped, failed,
                 hotReplies>>

\* ------------------------------------------------- sendMessage handler
\* a sendMessage that resolves its room with an upsert instead of findOne
sendUpsertNode(h) ==
  /\ h.kind = "send" /\ h.pc = "findOne"
  /\ nodes' = NodeUpsert(nodes, h.toKey, 0, h.userId)
  /\ handlers' = IF h.userId = NoId
                 THEN Finish(h)
                 ELSE Replace(h, [h EXCEPT !.pc = "create",
                                           !.toId = NodeFindOne(nodes', h.toKey)])
  /\ UNCHANGED <<users, transitions, messages, rooms, connected, nEvents,
                 nRaw, client, logs>>

\* the lookup without the guard that follows it
sendFindNodeUnguarded(h) ==
  /\ h.kind = "send" /\ h.pc = "findOne"
  /\ handlers' = Replace(h, [h EXCEPT !.pc = "create",
                                      !.toId = NodeFindOne(nodes, h.toKey)])
  /\ UNCHANGED <<store, rooms, connected, nEvents, nRaw, client, logs>>

\* await Node.findOne, then if (!userId || !node) return
sendFindNode(h) ==
  /\ h.kind = "send" /\ h.pc = "findOne"
  /\ LET node == NodeFindOne(nodes, h.toKey)
     IN  IF h.userId = NoId \/ node = NoId
         THEN /\ handlers' = Finish(h)
              /\ dropped' = dropped \cup {[conn |-> h.conn, kind |-> "send"]}
         ELSE /\ handlers' = Replace(h, [h EXCEPT !.pc = "create",
                                                  !.toId = node])
              /\ UNCHANGED dropped
  /\ UNCHANGED <<store, rooms, connected, nEvents, nRaw, client,
                 sessions, lastSetup, bcasts, hist, recs, failed,
                 hotReplies>>

\* await Message.create
sendCreate(h) ==
  /\ h.kind = "send" /\ h.pc = "create"
  /\ \E at \in Now(messages) :
       messages' = Append(messages, MessageRow(h.toId, h.userId, at))
  /\ handlers' = Replace(h, [h EXCEPT !.pc = "update",
                                      !.msgId = Len(messages')])
  /\ UNCHANGED <<users, nodes, transitions, rooms, connected, nEvents,
                 nRaw, client, logs>>

\* a handler that goes on to the broadcast and leaves the count for later
sendUpdateDeferred(h) ==
  /\ h.kind = "send" /\ h.pc = "update"
  /\ handlers' = Replace(h, [h EXCEPT !.pc = "findById"])
  /\ UNCHANGED <<store, rooms, connected, nEvents, nRaw, client, logs>>

\* await Node.updateOne ($inc messageCount)
sendUpdateNode(h) ==
  /\ h.kind = "send" /\ h.pc = "update"
  /\ nodes' = NodeIncMessages(nodes, h.toId)
  /\ handlers' = Replace(h, [h EXCEPT !.pc = "findById"])
  /\ UNCHANGED <<users, transitions, messages, rooms, connected, nEvents,
                 nRaw, client, logs>>

\* await User.findById, then io.to(nodeKey).emit("receiveMessage", {userId:
\* user._id, ...}): a null user throws before anything is emitted
sendBroadcast(h) ==
  /\ h.kind = "send" /\ h.pc = "findById"
  /\ bcasts' = IF UserExists(users, h.userId)
               THEN bcasts \cup
                      {[msgId |-> h.msgId, key |-> h.toKey,
                        sender |-> h.conn, senderOn |-> connected[h.conn],
                        targets |-> RoomTargets(rooms, connected, h.toKey)]}
               ELSE bcasts
  /\ handlers' = Finish(h)
  /\ UNCHANGED <<store, rooms, connected, nEvents, nRaw, client,
                 sessions, lastSetup, hist, recs, dropped, failed,
                 hotReplies>>

\* ------------------------------------------- getRecommendation handler
\* $sample 1 without the $match
RecAnyRoom(ns, roomKey) == {ns[i].roomKey : i \in Idx(ns)}

\* $match roomKey != given, $sample 1
RecCandidates(ns, roomKey) ==
  {ns[i].roomKey : i \in {j \in Idx(ns) : ns[j].roomKey # roomKey}}

\* the earlier server variant: nothing is emitted when no other room exists
recAggregateSilent(h) ==
  /\ h.kind = "rec" /\ h.pc = "aggregate"
  /\ IF connected[h.conn] /\ RecCandidates(nodes, h.toKey) # {}
     THEN \E k \in RecCandidates(nodes, h.toKey) :
            /\ recs' = recs (+) SetToBag({[conn |-> h.conn,
                                            roomKey |-> h.toKey,
                                            recommendedKey |-> k,
                                            to |-> SocketEmit(connected, h.conn)]})
            /\ cRecBtn' = [cRecBtn EXCEPT ![h.conn] = k]
     ELSE UNCHANGED <<recs, cRecBtn>>
  /\ handlers' = Finish(h)
  /\ UNCHANGED <<store, rooms, connected, nEvents, nRaw, cUserId, cRoomKey,
                 cEntryTime, cScreen, cKeyInput, sessions, lastSetup, bcasts,
                 hist, dropped, failed, hotReplies>>

\* await Node.aggregate, then socket.emit("recommendationResult"); the
\* client's setRecommendationButton binds the key (or hides the button)
recAggregate(h) ==
  /\ h.kind = "rec" /\ h.pc = "aggregate"
  /\ \E k \in (IF RecCandidates(nodes, h.toKey) = {} THEN {NoKey}
               ELSE RecCandidates(nodes, h.toKey)) :
       IF connected[h.conn]
       THEN /\ recs' = recs (+) SetToBag({[conn |-> h.conn,
                                            roomKey |-> h.toKey,
                                            recommendedKey |-> k,
                                            to |-> SocketEmit(connected, h.conn)]})
            /\ cRecBtn' = [cRecBtn EXCEPT ![h.conn] = k]
       ELSE UNCHANGED <<recs, cRecBtn>>
  /\ handlers' = Finish(h)
  /\ UNCHANGED <<store, rooms, connected, nEvents, nRaw, cUserId, cRoomKey,
                 cEntryTime, cScreen, cKeyInput, sessions, lastSetup, bcasts,
                 hist, dropped, failed, hotReplies>>

\* ------------------------------------------------------------ disconnect
\* a disconnect handler that logs the departure as a Transition out of the
\* room the socket was in
disconnectLogged(c) ==
  /\ connected[c]
  /\ nEvents < MaxEvents
  /\ connected' = [connected EXCEPT ![c] = FALSE]
  /\ rooms' = [rooms EXCEPT ![c] = {}]
  /\ transitions' =
       IF cUserId[c] # NoId /\ rooms[c] # {}
       THEN Append(transitions,
                   TransitionRow(cUserId[c],
                                 NodeFindOne(nodes, CHOOSE k \in rooms[c] : TRUE),
                                 NoId, "DISCONNECT", 0))
       ELSE transitions
  /\ nEvents' = nEvents + 1
  /\ UNCHANGED <<users, nodes, messages, handlers, nRaw, client, logs>>

\* Socket.IO takes the socket out of every room; the handler only logs
disconnect(c) ==
  /\ connected[c]
  /\ nEvents < MaxEvents
  /\ connected' = [connected EXCEPT ![c] = FALSE]
  /\ rooms' = [rooms EXCEPT ![c] = {}]
  /\ nEvents' = nEvents + 1
  /\ UNCHANGED <<store, handlers, nRaw, client, logs>>

\* --------------------------------------------------------- store failure
\* a handler that tries its rejected store call again
storeRetries(h) ==
  /\ h.kind \in {"userSetup", "join", "send", "rec"}
  /\ failed < MaxFailures
  /\ failed' = failed + 1
  /\ UNCHANGED <<store, rooms, connected, handlers, nEvents, nRaw, client,
                 sessions, lastSetup, bcasts, hist, recs, dropped, hotReplies>>

\* the store call handler h awaits rejects: the await throws into the
\* handler's catch, which writes a console line and ends the handler
storeFails(h) ==
  /\ h.kind \in {"userSetup", "join", "send", "rec"}
  /\ failed < MaxFailures
  /\ handlers' = Finish(h)
  /\ failed' = failed + 1
  /\ UNCHANGED <<store, rooms, connected, nEvents, nRaw, client,
                 sessions, lastSetup, bcasts, hist, recs, dropped, hotReplies>>

\* ------------------------------------------------------------ raw events
\* events with a payload the stock client would not build (sent from the
\* page's console or another program on the connection): a join without
\* userId or toNodeKey, or with the id of no user and a negative duration;
\* a message under any userId; a userSetup with another browser's localId
RawUserIds == {NoId, GhostId}
\* ... and ids of other users, which the server never checks against the socket
ForgedUserIds == RawUserIds \cup Idx(users)
RawDurations == {0 - 1}

CanActRaw(c) == CanAct(c) /\ nRaw < MaxRaw

rawJoin(c, userId, fromKey, toKey, dur) ==
  /\ CanActRaw(c)
  /\ handlers' = handlers (+)
       joinNodeAndLogTransition(c, userId, fromKey, toKey, dur, "RAW")
  /\ dropped' = IF userId = NoId \/ toKey = NoKey
                THEN dropped \cup {[conn |-> c, kind |-> "join"]}
                ELSE dropped
  /\ nEvents' = nEvents + 1 /\ nRaw' = nRaw + 1
  /\ UNCHANGED <<store, rooms, connected, client,
                 sessions, lastSetup, bcasts, hist, recs, failed,
                 hotReplies>>

rawSend(c, userId, nodeKey) ==
  /\ CanActRaw(c)
  /\ handlers' = handlers (+) sendMessage(c, userId, nodeKey)
  /\ nEvents' = nEvents + 1 /\ nRaw' = nRaw + 1
  /\ UNCHANGED <<store, rooms, connected, client, logs>>

rawUserSetup(c, localId, nickname) ==
  /\ CanActRaw(c)
  /\ handlers' = handlers (+) userSetup(c, localId, nickname)
  /\ nEvents' = nEvents + 1 /\ nRaw' = nRaw + 1
  /\ UNCHANGED <<store, rooms, connected, client, logs>>

\* ------------------------------------------------------- specifications
\* The collections live in MongoDB and outlast the server process: the
\* server starts over what an earlier run left.  Here that is one visit of
\* the second browser to room "B" (its User, the Node, the Transition); the
\* first browser and room "A" are new.
Init ==
  /\ users = <<[localId |-> LocalIdOf("c2"), nickname |-> NicknameOf("c2")]>>
  /\ nodes = <<[roomKey |-> "B", visitCount |-> 1, messageCount |-> 0,
               creatorId |-> 1]>>
  /\ transitions = <<TransitionRow(1, NoId, 1, "INITIAL", 0)>>
  /\ messages = <<>>
  /\ rooms = [c \in Conns |-> {}]
  /\ connected = [c \in Conns |-> TRUE]
  /\ handlers = EmptyBag
  /\ nEvents = 0 /\ nRaw = 0
  /\ cUserId = [c \in Conns |-> NoId]
  /\ cRoomKey = [c \in Conns |-> NoKey]
  /\ cEntryTime = [c \in Conns |-> FALSE]
  /\ cScreen = [c \in Conns |-> "entry"]
  /\ cKeyInput = [c \in Conns |-> NoKey]
  /\ cRecBtn = [c \in Conns |-> NoKey]
  /\ sessions = {} /\ bcasts = {} /\ hist = {} /\ recs = EmptyBag
  /\ dropped = {} /\ failed = 0 /\ hotReplies = {}
  /\ lastSetup = [t \in LocalIds |->
                    IF t = LocalIdOf("c2") THEN NicknameOf("c2") ELSE ""]

ClientEvent ==
  \E c \in Conns :
    \/ \E key \in Keys : handleJoinChat(c, key)
    \/ handleLeaveChat(c)
    \/ \E text \in Texts : handleMessageInput(c, text)
    \/ recommendClick(c)
    \/ disconnect(c)

\* the handlers of connection c that await the store
Awaiting(c) == {h \in BagToSet(handlers) : h.conn = c}

ServerStep ==
  \E c \in Conns :
    \/ \E h \in Awaiting(c) : userSetupUpsert(h)
    \/ \E h \in Awaiting(c) : joinFromNode(h)
    \/ \E h \in Awaiting(c) : joinToNode(h)
    \/ \E h \in Awaiting(c) : joinTransition(h)
    \/ \E h \in Awaiting(c) : joinHistory(h)
    \/ \E h \in Awaiting(c) : sendFindNode(h)
    \/ \E h \in Awaiting(c) : sendCreate(h)
    \/ \E h \in Awaiting(c) : sendUpdateNode(h)
    \/ \E h \in Awaiting(c) : sendBroadcast(h)
    \/ \E h \in Awaiting(c) : recAggregate(h)

RawEvent ==
  \E c \in Conns :
    \/ \E userId \in RawUserIds, toKey \in Keys \cup {NoKey},
          dur \in RawDurations :
         rawJoin(c, userId, NoKey, toKey, dur)
    \/ \E userId \in ForgedUserIds, nodeKey \in Keys : rawSend(c, userId, nodeKey)
    \/ \E localId \in LocalIds \ {LocalIdOf(c)} :
         rawUserSetup(c, localId, NicknameOf(c))

\* stock clients only
NextClient == ClientEvent \/ ServerStep
SpecClient == Init /\ [][NextClient]_vars

\* stock clients and raw events
Next == ClientEvent \/ ServerStep \/ RawEvent
Spec == Init /\ [][Next]_vars

\* the store may fail: any awaited call may reject
StoreFailure == \E c \in Conns : \E h \in Awaiting(c) : storeFails(h)
\* the first browser has pressed the entry button with a key typed in: its
\* userSetup is with the server, awaiting the upsert
InitFail ==
  \E key \in Keys :
    /\ users = <<[localId |-> LocalIdOf("c2"), nickname |-> NicknameOf("c2")]>>
    /\ nodes = <<[roomKey |-> "B", visitCount |-> 1, messageCount |-> 0,
                  creatorId |-> 1]>>
    /\ transitions = <<TransitionRow(1, NoId, 1, "INITIAL", 0)>>
    /\ messages = <<>>
    /\ rooms = [c \in Conns |-> {}]
    /\ connected = [c \in Conns |-> TRUE]
    /\ handlers = userSetup("c1", LocalIdOf("c1"), NicknameOf("c1"))
    /\ nEvents = 1 /\ nRaw = 0
    /\ cUserId = [c \in Conns |-> NoId]
    /\ cRoomKey = [c \in Conns |-> NoKey]
    /\ cEntryTime = [c \in Conns |-> FALSE]
    /\ cScreen = [c \in Conns |-> "entry"]
    /\ cKeyInput = [c \in Conns |-> IF c = "c1" THEN key ELSE NoKey]
    /\ cRecBtn = [c \in Conns |-> NoKey]
    /\ sessions = {} /\ bcasts = {} /\ hist = {} /\ recs = EmptyBag
    /\ dropped = {} /\ failed = 0 /\ hotReplies = {}
    /\ lastSetup = [t \in LocalIds |->
                      IF t = LocalIdOf("c2") THEN NicknameOf("c2") ELSE ""]
NextFail == ClientEvent \/ ServerStep \/ StoreFailure
SpecFail == InitFail /\ [][NextFail]_vars

\* Node resumes every handler whose store call has returned, and absent a
\* store failure every call returns: no handler awaits forever
SpecClientLive == Init /\ [][NextClient]_vars /\ WF_vars(ServerStep)
\* the same with raw events
SpecLive == Init /\ [][Next]_vars /\ WF_vars(ServerStep)

\* ------------------------------------------- the history query at scale
\* A store that many sendMessage events have filled: n Message rows of the
\* stored user, every stride-th of them in room 2 and the others in room 1
\* (all in room 1 when stride is 0); rows tie and tie + 1 were created in the
\* same millisecond (none when tie is 0).  Connection c1 has sent a join for
\* room R under the stored user's id; its handler has logged the Transition,
\* attached the socket and awaits Message.find.
Strides == {0, 2, 3}
Ties == {0, 1, HistoryLimit}
StoredMessages(n, stride, tie) ==
  [i \in 1..n |->
     MessageRow(IF stride > 0 /\ i % stride = 0 THEN 2 ELSE 1, 1,
                IF tie > 0 /\ i > tie THEN i - 1 ELSE i)]

InitHistory ==
  \E n \in 0..MaxMessages, stride \in Strides, tie \in Ties, R \in {1, 2} :
    /\ users = <<[localId |-> LocalIdOf("c2"), nickname |-> NicknameOf("c2")]>>
    /\ messages = StoredMessages(n, stride, tie)
    /\ transitions = <<TransitionRow(1, NoId, 1, "INITIAL", 0),
                       TransitionRow(1, 1, 2, "GO_COMMAND", 5),
                       TransitionRow(1, NoId, R, "RAW", 0 - 1)>>
    /\ nodes = [i \in 1..2 |->
                 [roomKey |-> IF i = 1 THEN "B" ELSE "A",
                  visitCount |-> IF i = R THEN 2 ELSE 1,
                  messageCount |->
                    Cardinality({m \in 1..n : messages[m].nodeId = i}),
                  creatorId |-> 1]]
    /\ rooms = [c \in Conns |-> IF c = "c1" THEN {nodes[R].roomKey} ELSE {}]
    /\ connected = [c \in Conns |-> TRUE]
    /\ handlers = SetToBag({[H0 EXCEPT !.conn = "c1", !.kind = "join",
                               !.pc = "find", !.userId = 1,
                               !.toKey = nodes[R].roomKey, !.dur = 0 - 1,
                               !.ttype = "RAW", !.toId = R, !.since = n]})
    /\ nEvents = 1 /\ nRaw = 1
    /\ cUserId = [c \in Conns |-> NoId]
    /\ cRoomKey = [c \in Conns |-> NoKey]
    /\ cEntryTime = [c \in Conns |-> FALSE]
    /\ cScreen = [c \in Conns |-> "entry"]
    /\ cKeyInput = [c \in Conns |-> NoKey]
    /\ cRecBtn = [c \in Conns |-> NoKey]
    /\ sessions = {} /\ bcasts = {} /\ hist = {} /\ recs = EmptyBag
    /\ dropped = {} /\ failed = 0 /\ hotReplies = {}
    /\ lastSetup = [t \in LocalIds |->
                      IF t = LocalIdOf("c2") THEN NicknameOf("c2") ELSE ""]

NextHistory == \E h \in BagToSet(handlers) : joinHistory(h)
SpecHistory == InitHistory /\ [][NextHistory]_vars

\* ------------------------------------------- userSetup over whole documents
\* The session specifications keep of a User document the two fields the
\* socket protocol reads (localId, nickname).  Here the document is whole:
\* localId, nickname, createdAt, lastSeenAt and the five utm fields (utm[f]
\* is the field utmSource, utmMedium, ... of the schema).
UtmFields == {"source", "medium", "campaign", "content", "term"}
Missing == "undefined"                 \* the field is not there
UtmValues == {Missing, "", "g"}        \* what an event carries in utm.<f>
StoredUtm == {Missing, "s"}            \* what an earlier setup left
SetupTimes == {2, 3}                   \* new Date() of the handler

\* if (utm.<f>): a non-empty string
Truthy(v) == v # Missing /\ v # ""

\* a variant that writes every key the event carries, empty ones included
UpdateFieldsPresent(nickname, utmGiven, utm, now) ==
  [nickname |-> nickname, lastSeenAt |-> now,
   utm |-> [f \in {g \in UtmFields : utmGiven /\ utm[g] # Missing} |-> utm[f]]]

\* const updateFields = {nickname, lastSeenAt: new Date()};
\* if (utm) { if (utm.source) updateFields.utmSource = utm.source; ... }
UpdateFields(nickname, utmGiven, utm, now) ==
  [nickname |-> nickname, lastSeenAt |-> now,
   utm |-> [f \in {g \in UtmFields : utmGiven /\ Truthy(utm[g])} |-> utm[f]]]

\* $set: updateFields on one document
SetFields(doc, set) ==
  [doc EXCEPT !.nickname = set.nickname, !.lastSeenAt = set.lastSeenAt,
              !.utm = [f \in UtmFields |->
                         IF f \in DOMAIN set.utm THEN set.utm[f] ELSE @[f]]]

\* User.findOneAndUpdate({localId}, {$set: updateFields,
\*   $setOnInsert: {localId, createdAt: new Date()}}, {upsert: true, new: true})
UserDocUpsert(us, localId, set, now) ==
  IF UserMatches(us, localId) # {}
  THEN [us EXCEPT ![First(UserMatches(us, localId))] = SetFields(@, set)]
  ELSE Append(us, SetFields([localId |-> localId, nickname |-> Missing,
                             createdAt |-> now, lastSeenAt |-> now,
                             utm |-> [f \in UtmFields |-> Missing]], set))

\* the userSetup handler over whole documents: await User.findOneAndUpdate,
\* then socket.emit("sessionEstablished") and the client's callback
userSetupDoc(h) ==
  /\ h.kind = "userSetup" /\ h.pc = "upsert"
  /\ users' = UserDocUpsert(users, h.localId,
                 UpdateFields(h.nickname, h.utmGiven, h.utm, h.now), h.now)
  /\ LET uid == UserIdOf(users', h.localId)
     IN  /\ sessions' = sessions \cup
               {[localId |-> h.localId, userId |-> uid,
                 nickname |-> users'[uid].nickname]}
         /\ lastSetup' = [lastSetup EXCEPT ![h.localId] = h.nickname]
         /\ IF connected[h.conn]
            THEN /\ cUserId' = [cUserId EXCEPT ![h.conn] = uid]
                 /\ goToNode(h.conn, uid, cKeyInput[h.conn], "INITIAL",
                             Finish(h))
                 /\ cScreen' = [cScreen EXCEPT ![h.conn] = "chat"]
                 /\ cKeyInput' = [cKeyInput EXCEPT ![h.conn] = NoKey]
            ELSE /\ handlers' = Finish(h)
                 /\ UNCHANGED <<cUserId, cRoomKey, cEntryTime, cScreen,
                                cKeyInput>>
  /\ UNCHANGED <<nodes, transitions, messages, rooms, connected, nEvents,
                 nRaw, bcasts, hist, recs, dropped, failed, hotReplies,
                 cRecBtn>>

\* One stored User (the second browser's, created at time 1 with some utm
\* fields) and one userSetup event received and awaiting its upsert: for the
\* stored localId or a new one, with or without a utm object, each utm key
\* missing, empty or non-empty.
InitSetup ==
  \E stored \in [UtmFields -> StoredUtm], localId \in LocalIds,
     utmGiven \in BOOLEAN, utm \in [UtmFields -> UtmValues],
     now \in SetupTimes :
    /\ utmGiven \/ utm = [f \in UtmFields |-> Missing]
    /\ users = <<[localId |-> LocalIdOf("c2"), nickname |-> NicknameOf("c2"),
                  createdAt |-> 1, lastSeenAt |-> 1, utm |-> stored]>>
    /\ handlers = SetToBag({[conn |-> "c1", kind |-> "userSetup",
                             pc |-> "upsert", localId |-> localId,
                             nickname |-> NicknameOf("c1"),
                             utmGiven |-> utmGiven, utm |-> utm, now |-> now]})
    /\ nodes = <<[roomKey |-> "B", visitCount |-> 1, messageCount |-> 0,
                  creatorId |-> 1]>>
    /\ transitions = <<TransitionRow(1, NoId, 1, "INITIAL", 0)>>
    /\ messages = <<>>
    /\ rooms = [c \in Conns |-> {}]
    /\ connected = [c \in Conns |-> TRUE]
    /\ nEvents = 1 /\ nRaw = 1
    /\ cUserId = [c \in Conns |-> NoId]
    /\ cRoomKey = [c \in Conns |-> NoKey]
    /\ cEntryTime = [c \in Conns |-> FALSE]
    /\ cScreen = [c \in Conns |-> "entry"]
    /\ cKeyInput = [c \in Conns |-> NoKey]
    /\ cRecBtn = [c \in Conns |-> NoKey]
    /\ sessions = {} /\ bcasts = {} /\ hist = {} /\ recs = EmptyBag
    /\ dropped = {} /\ failed = 0 /\ hotReplies = {}
    /\ lastSetup = [t \in LocalIds |->
                      IF t = LocalIdOf("c2") THEN NicknameOf("c2") ELSE ""]

NextSetup == \E h \in BagToSet(handlers) : userSetupDoc(h)
SpecSetup == InitSetup /\ [][NextSetup]_vars

\* ------------------------------------------------------- GET /hot-nodes
\* Times are in hours.  A query-string value is the sequence of its
\* characters; a parameter the URL does not carry is undefined.
HotParams == {"hours", "limit", "minVisits"}
Undefined == <<"u", "n", "d", "e", "f", "i", "n", "e", "d">>
QueryValue(q, p) == IF p \in DOMAIN q THEN q[p] ELSE Undefined

Digits == <<"0", "1", "2", "3", "4", "5", "6", "7", "8", "9">>
IsDigit(ch) == \E d \in DOMAIN Digits : Digits[d] = ch
DigitVal(ch) == (CHOOSE d \in DOMAIN Digits : Digits[d] = ch) - 1

\* the number the digits of s from position i up to the first non-digit
\* spell, after the digits already read as acc
RECURSIVE LeadingDigits(_, _, _)
LeadingDigits(s, i, acc) ==
  IF i > Len(s) \/ ~IsDigit(s[i]) THEN acc
  ELSE LeadingDigits(s, i + 1, acc * 10 + DigitVal(s[i]))

\* parseInt(s): an optional sign, then the longest run of decimal digits;
\* NaN when no digit follows.  (Leading blanks and the 0x prefix are not
\* among the values used here.)
NaN == [nan |-> TRUE, n |-> 0]
parseInt(s) ==
  LET signed == s # <<>> /\ s[1] \in {"-", "+"}
      j == IF signed THEN 2 ELSE 1
  IN  IF j > Len(s) \/ ~IsDigit(s[j]) THEN NaN
      ELSE [nan |-> FALSE,
            n |-> (IF signed /\ s[1] = "-" THEN 0 - 1 ELSE 1)
                    * LeadingDigits(s, j, 0)]

\* parseInt(...) || d : NaN and 0 are falsy
OrDefault(v, d) == IF v.nan \/ v.n = 0 THEN d ELSE v.n

DefaultHours == 24
DefaultLimit == 5
DefaultMinVisits == 1
HotDefault(p) ==
  IF p = "hours" THEN DefaultHours
  ELSE IF p = "limit" THEN DefaultLimit ELSE DefaultMinVisits

\* the three parsed parameters of a request
HotArgs(q) == [p \in HotParams |-> OrDefault(parseInt(QueryValue(q, p)), HotDefault(p))]

\* app.get("/hot-nodes"): parameters parsed, cutoffDate computed, the
\* handler awaits Transition.aggregate
hotNodes(q, now) ==
  SetToBag({[conn |-> "http", kind |-> "hot", pc |-> "aggregate", query |-> q,
             args |-> HotArgs(q), now |-> now,
             cutoff |-> now - HotArgs(q)["hours"]]})

\* a pipeline without its first $match: every Transition row is grouped
AllRows(ts, cutoff) == Idx(ts)

\* $match {createdAt: {$gte: cutoffDate}}
Recent(ts, cutoff) == {i \in Idx(ts) : ts[i].createdAt >= cutoff}

RECURSIVE SumDuration(_, _)
SumDuration(ts, S) ==
  IF S = {} THEN 0
  ELSE LET i == CHOOSE x \in S : TRUE
       IN  ts[i].duration + SumDuration(ts, S \ {i})

\* $group by toNodeId, $lookup + $unwind of the Node, $project: the document
\* of the group of node id.  avgDurationPerVisit is kept as the fraction
\* totalDuration / totalVisits.
HotGroup(ts, ns, cutoff, id) ==
  LET rows == {i \in Recent(ts, cutoff) : ts[i].toNodeId = id}
  IN  [roomKey |-> ns[id].roomKey,
       totalVisits |-> Cardinality(rows),
       uniqueUsersCount |-> Cardinality({ts[i].userId : i \in rows}),
       totalDuration |-> SumDuration(ts, rows),
       lastActivity |-> CHOOSE t \in {ts[i].createdAt : i \in rows} :
                          \A i \in rows : ts[i].createdAt <= t,
       createdAt |-> ns[id].createdAt]

\* the pipeline's result.  $group emits its groups in no specified order:
\* order is the order this run of the server emits them in (a sequence of
\* node ids).  $unwind drops a group without a Node, the last $match one
\* with fewer than minVisits rows.
Aggregated(ts, ns, cutoff, minVisits, order) ==
  LET Grouped(id) == /\ \E i \in Recent(ts, cutoff) : ts[i].toNodeId = id
                     /\ id \in Idx(ns)
                     /\ HotGroup(ts, ns, cutoff, id).totalVisits >= minVisits
      ids == SelectSeq(order, Grouped)
  IN  [k \in Idx(ids) |-> HotGroup(ts, ns, cutoff, ids[k])]

\* 1000000 * exp(-j / 2) for j = 0 .. 8
ExpHalf == <<1000000, 606531, 367879, 223130, 135335, 82085, 49787, 30197,
             18316>>
\* 1000000 * Math.exp(-hours / scale), for the ages that occur
Decay(hours, scale) == ExpHalf[(2 * hours) \div scale + 1]

\* Math.min(node.totalVisits / maxVisits, 1), in units of 0.000001
normalizedVisits(node) == Min((node.totalVisits * 1000000) \div 100, 1000000)
\* Math.min(node.uniqueUsersCount / maxUsers, 1)
normalizedUsers(node) ==
  Min((node.uniqueUsersCount * 1000000) \div 20, 1000000)
\* Math.min(node.avgDurationPerVisit / maxDuration, 1): only the upper end
\* is cut off
normalizedDuration(node) ==
  Min((node.totalDuration * 1000000) \div (node.totalVisits * 300), 1000000)

\* the curation formula, in units of 0.0000001
Score(node, now) ==
    normalizedVisits(node) * 5
  + normalizedUsers(node) * 8
  + normalizedDuration(node) * 3
  + Decay(now - node.lastActivity, 12) * 12
  + Decay(now - node.createdAt, 24) * 5

\* .map(node => ({...node, score}))
Scored(nodeSeq, now) ==
  [k \in Idx(nodeSeq) |->
     [roomKey |-> nodeSeq[k].roomKey, totalVisits |-> nodeSeq[k].totalVisits,
      uniqueUsersCount |-> nodeSeq[k].uniqueUsersCount,
      totalDuration |-> nodeSeq[k].totalDuration,
      lastActivity |-> nodeSeq[k].lastActivity,
      createdAt |-> nodeSeq[k].createdAt, score |-> Score(nodeSeq[k], now)]]

\* a sort by score ascending
RECURSIVE SortAscending(_)
SortAscending(s) ==
  IF s = <<>> THEN <<>>
  ELSE LET rest == SortAscending(SubSeq(s, 1, Len(s) - 1))
           e == s[Len(s)]
           Before(x) == x.score <= e.score
           After(x) == x.score > e.score
       IN  SelectSeq(rest, Before) \o <<e>> \o SelectSeq(rest, After)

\* .sort((a, b) => b.score - a.score): Array.prototype.sort is stable, an
\* element goes behind those already placed that score at least as much
RECURSIVE SortByScore(_)
SortByScore(s) ==
  IF s = <<>> THEN <<>>
  ELSE LET rest == SortByScore(SubSeq(s, 1, Len(s) - 1))
           e == s[Len(s)]
           Before(x) == x.score >= e.score
           After(x) == x.score < e.score
       IN  SelectSeq(rest, Before) \o <<e>> \o SelectSeq(rest, After)

\* .slice(0, end): a negative end counts from the end of the array
Slice(s, end) ==
  SubSeq(s, 1, IF end >= 0 THEN Min(end, Len(s))
               ELSE IF Len(s) + end > 0 THEN Len(s) + end ELSE 0)

\* the response body for parsed parameters args
HotBody(ts, ns, args, now, order) ==
  Slice(SortByScore(Scored(Aggregated(ts, ns, now - args["hours"],
                                      args["minVisits"], order), now)),
        args["limit"])

\* the orders a set of ids can come in
Perms(S) ==
  {p \in [1..Cardinality(S) -> S] : \A i, j \in DOMAIN p : p[i] = p[j] => i = j}

\* await Transition.aggregate, then map, sort, slice and res.json
hotAggregate(h) ==
  /\ h.kind = "hot" /\ h.pc = "aggregate"
  /\ \E order \in Perms(Idx(nodes)) :
       hotReplies' = hotReplies \cup
         {[query |-> h.query, args |-> h.args, now |-> h.now, status |-> 200,
           order |-> order,
           grouped |-> Aggregated(transitions, nodes, h.cutoff,
                                  h.args["minVisits"], order),
           body |-> HotBody(transitions, nodes, h.args, h.now, order)]}
  /\ handlers' = Finish(h)
  /\ UNCHANGED <<store, rooms, connected, nEvents, nRaw, client, sessions,
                 lastSetup, bcasts, hist, recs, dropped, failed>>

\* The store two days after the server's first events.  At hour 0 one user
\* went from "B" to "A" and from "C" to "A", which created the three rooms;
\* since then room i got old[i] visits 36 hours before the request and
\* recent[i] visits in its last day: the first 12 hours before the request,
\* by user 1, the second in the hour of the request, by user 2.
HotNow == 48
HotKeys == <<"A", "B", "C">>
HotRow(userId, fromId, toId, dur, at) ==
  [userId |-> userId, fromNodeId |-> fromId, toNodeId |-> toId,
   transitionType |-> "GO_COMMAND", duration |-> dur, createdAt |-> at]
RECURSIVE VisitRows(_, _, _, _)
\* one row by userId at time `at` into every room i <= n with count[i] >= k
VisitRows(count, k, n, row) ==
  IF n = 0 THEN <<>>
  ELSE VisitRows(count, k, n - 1, row)
         \o (IF count[n] >= k THEN <<[row EXCEPT !.toNodeId = n]>> ELSE <<>>)
HotTransitions(old, recent) ==
  <<HotRow(1, 2, 1, 0, 0), HotRow(1, 3, 1, 0, 0)>>
    \o VisitRows(old, 1, 3, HotRow(1, NoId, 1, 0, HotNow - 36))
    \o VisitRows(recent, 1, 3, HotRow(1, NoId, 1, 5, HotNow - 12))
    \o VisitRows(recent, 2, 3, HotRow(2, NoId, 1, 5, HotNow))

\* query-string values: not a number, zero, negative, a number followed by
\* a letter; and well-formed values of each parameter
Malformed == {<<"x">>, <<"0">>, <<"-", "1">>, <<"2", "x">>}
WellFormed(p) ==
  IF p = "hours" THEN {<<"1", "2">>}
  ELSE IF p = "limit" THEN {<<"1">>, <<"2">>} ELSE {<<"2">>}
Queries ==
  {q \in UNION {[D -> Malformed \cup UNION {WellFormed(p) : p \in HotParams}] :
                  D \in SUBSET HotParams} :
     \A p \in DOMAIN q : q[p] \in Malformed \cup WellFormed(p)}

InitHot ==
  \E old \in [1..3 -> 0..1], recent \in [1..3 -> 0..2], q \in Queries :
    /\ users = <<[localId |-> "t1", nickname |-> "n1"],
                 [localId |-> "t2", nickname |-> "n2"]>>
    /\ transitions = HotTransitions(old, recent)
    /\ nodes = [i \in 1..3 |->
                 [roomKey |-> HotKeys[i],
                  visitCount |-> Cardinality({t \in Idx(transitions) :
                                                transitions[t].toNodeId = i}),
                  messageCount |-> 0,
                  creatorId |-> IF i = 1 THEN 1 ELSE NoId,
                  createdAt |-> 0]]
    /\ messages = <<>>
    /\ handlers = hotNodes(q, HotNow)
    /\ rooms = [c \in Conns |-> {}]
    /\ connected = [c \in Conns |-> TRUE]
    /\ nEvents = 2 /\ nRaw = 1
    /\ cUserId = [c \in Conns |-> NoId]
    /\ cRoomKey = [c \in Conns |-> NoKey]
    /\ cEntryTime = [c \in Conns |-> FALSE]
    /\ cScreen = [c \in Conns |-> "entry"]
    /\ cKeyInput = [c \in Conns |-> NoKey]
    /\ cRecBtn = [c \in Conns |-> NoKey]
    /\ sessions = {} /\ bcasts = {} /\ hist = {} /\ recs = EmptyBag
    /\ dropped = {} /\ failed = 0 /\ hotReplies = {}
    /\ lastSetup = [t \in LocalIds |-> IF t = "t1" THEN "n1" ELSE "n2"]

NextHot == \E h \in BagToSet(handlers) : hotAggregate(h)
SpecHot == InitHot /\ [][NextHot]_vars

\* ------------------------------------- joins that feed GET /hot-nodes
\* The store of InitHot while a joinNodeAndLogTransition that a program on
\* connection c1 sent with a duration of its choice is at its first await;
\* the ranking is requested once, before, during or after the join.
\* duration is a Number of the schema with no validator: what the stock
\* client measures (0 on the first join, else whole seconds), and what any
\* other sender writes into the payload
StockDurations == {0, 150, 600}
ClientDurations == StockDurations \cup {0 - 1, 0 - 600}
NoQuery == [p \in {} |-> <<>>]

\* await Transition.create with the schema's createdAt default (Date.now),
\* then socket.leave(fromNodeKey) and socket.join(toNodeKey)
joinTransitionAt(h, now) ==
  /\ h.kind = "join" /\ h.pc = "create"
  /\ transitions' = Append(transitions,
        TransitionRow(h.userId, h.fromId, h.toId, h.ttype, h.dur)
          @@ [createdAt |-> now])
  /\ rooms' = SocketJoin(IF h.fromKey # NoKey
                         THEN SocketLeave(rooms, h.conn, h.fromKey)
                         ELSE rooms,
                         h.conn, h.toKey)
  /\ handlers' = Replace(h, [h EXCEPT !.pc = "find"])
  /\ UNCHANGED <<users, nodes, messages, connected, nEvents, nRaw,
                 client, logs>>

\* app.get("/hot-nodes"): runs to the await of Transition.aggregate
hotRequest(q, now) ==
  /\ hotReplies = {}
  /\ \A h \in BagToSet(handlers) : h.kind # "hot"
  /\ handlers' = handlers (+) hotNodes(q, now)
  /\ UNCHANGED <<store, rooms, connected, nEvents, nRaw, client, logs>>

InitDwell ==
  \E recent \in [1..3 -> 0..1], dur \in ClientDurations,
     fromKey \in {NoKey, "B"}, toKey \in {"A", "B", "C"} :
    /\ users = <<[localId |-> "t1", nickname |-> "n1"],
                 [localId |-> "t2", nickname |-> "n2"]>>
    /\ transitions = HotTransitions([i \in 1..3 |-> 0], recent)
    /\ nodes = [i \in 1..3 |->
                 [roomKey |-> HotKeys[i],
                  visitCount |-> Cardinality({t \in Idx(transitions) :
                                                transitions[t].toNodeId = i}),
                  messageCount |-> 0,
                  creatorId |-> IF i = 1 THEN 1 ELSE NoId,
                  createdAt |-> 0]]
    /\ messages = <<>>
    /\ handlers = joinNodeAndLogTransition("c1", 2, fromKey, toKey, dur,
                                           "GO_COMMAND")
    /\ rooms = [c \in Conns |-> {}]
    /\ connected = [c \in Conns |-> TRUE]
    /\ nEvents = 1 /\ nRaw = 1
    /\ cUserId = [c \in Conns |-> NoId]
    /\ cRoomKey = [c \in Conns |-> NoKey]
    /\ cEntryTime = [c \in Conns |-> FALSE]
    /\ cScreen = [c \in Conns |-> "entry"]
    /\ cKeyInput = [c \in Conns |-> NoKey]
    /\ cRecBtn = [c \in Conns |-> NoKey]
    /\ sessions = {} /\ bcasts = {} /\ hist = {} /\ recs = EmptyBag
    /\ dropped = {} /\ failed = 0 /\ hotReplies = {}
    /\ lastSetup = [t \in LocalIds |-> IF t = "t1" THEN "n1" ELSE "n2"]

NextDwell ==
  \/ \E h \in BagToSet(handlers) : joinFromNode(h)
  \/ \E h \in BagToSet(handlers) : joinToNode(h)
  \/ \E h \in BagToSet(handlers) : joinTransitionAt(h, HotNow)
  \/ \E h \in BagToSet(handlers) : joinHistory(h)
  \/ hotRequest(NoQuery, HotNow)
  \/ \E h \in BagToSet(handlers) : hotAggregate(h)
SpecDwell == InitDwell /\ [][NextDwell]_vars

\* ================================================================ claims
InFlight(kind) == {h \in BagToSet(handlers) : h.kind = kind}
NodeIds == Idx(nodes)

\* C1: in every reachable state a connection is attached to at most one
\* room's fan-out group.
C1_AtMostOneRoom == \A c \in Conns : Cardinality(rooms[c]) <= 1

\* the join answered by history reply r is the only one of its connection,
\* which is still connected and attached to that room alone
Settled(r) ==
  /\ connected[r.conn]
  /\ rooms[r.conn] = {r.key}
  /\ {h \in InFlight("join") : h.conn = r.conn} = {}
  /\ Cardinality({x \in hist : x.conn = r.conn}) = 1
InHistory(r, m) == \E k \in Idx(r.msgs) : r.msgs[k] = m
\* C2: for a connection c that joined room R (its history reply r is in) and
\* stays there, every message another connection persisted to R after the
\* server received c's join reached c exactly once: either in the history
\* reply or as a receiveMessage broadcast, never in both and never in neither.
C2_ExactlyOnce ==
  \A r \in hist : \A b \in bcasts :
    ( /\ Settled(r)
      /\ Len(RoomMessages(messages, r.nodeId, 1)) < HistoryLimit
      /\ b.key = r.key /\ b.msgId > r.since /\ b.sender # r.conn )
    => (InHistory(r, b.msgId) # (r.conn \in b.targets))

\* C3: the receiveMessage broadcast of a message sent by connection c goes to
\* the connections attached to the room at broadcast time (io.to), and that
\* set contains c itself while c is connected.
C3_SenderReceives == \A b \in bcasts : b.senderOn => b.sender \in b.targets

\* the joins that named room id as destination and were logged
TransitionsInto(id) == {t \in Idx(transitions) : transitions[t].toNodeId = id}
\* C4: no two Room records ever share a key, and once no join handler is
\* awaiting, a key that N joins named as destination has exactly one Room
\* record whose visitCount is N (N = the Transition rows into it).
C4_OneRoomPerKey ==
  /\ \A i, j \in NodeIds : nodes[i].roomKey = nodes[j].roomKey => i = j
  /\ InFlight("join") = {} =>
       \A i \in NodeIds : nodes[i].visitCount = Cardinality(TransitionsInto(i))
\* two connections joined a key that neither found in the store when its
\* join arrived; both handlers have finished
C4_Witness ==
  /\ InFlight("join") = {}
  /\ \E r1, r2 \in hist :
       /\ r1.conn # r2.conn /\ r1.key = r2.key /\ r1.fresh /\ r2.fresh
       /\ Cardinality(NodeMatches(nodes, r1.key)) = 1
       /\ nodes[r1.nodeId].visitCount = 2

\* C5: at most one User per localId; every sessionEstablished reply for a
\* localId carries the same userId; the stored nickname of a localId is the
\* nickname of the userSetup applied last.
C5_IdempotentIdentity ==
  /\ \A i, j \in Idx(users) : users[i].localId = users[j].localId => i = j
  /\ \A s1, s2 \in sessions : s1.localId = s2.localId => s1.userId = s2.userId
  /\ \A t \in LocalIds :
       lastSetup[t] # "" =>
         /\ UserMatches(users, t) # {}
         /\ users[UserIdOf(users, t)].nickname = lastSetup[t]
\* two userSetup events with one localId and different nicknames were applied
C5_Witness ==
  /\ InFlight("userSetup") = {}
  /\ \E s1, s2 \in sessions :
       /\ s1.localId = s2.localId /\ s1.nickname # s2.nickname
       /\ users[s1.userId].nickname = lastSetup[s1.localId]

\* C6: once a connection has disconnected it is attached to no fan-out group.
C6_DisconnectedDetached == \A c \in Conns : ~connected[c] => rooms[c] = {}

\* C7: every persisted Message's userId is the id of an existing User.
C7_MessageUserExists ==
  \A m \in Idx(messages) : UserExists(users, messages[m].userId)

\* C8: a Transition row is appended, a visitCount raised and a connection
\* attached only for a join whose userId is the id of an existing User.
C8_JoinNeedsUser ==
  \A t \in Idx(transitions) : UserExists(users, transitions[t].userId)

\* C9: every Transition's toNodeId is the id of a Room in the collection and
\* its fromNodeId is null or the id of a Room in the collection.
C9_TransitionRefs ==
  \A t \in Idx(transitions) :
    /\ transitions[t].toNodeId \in NodeIds
    /\ transitions[t].fromNodeId = NoId \/ transitions[t].fromNodeId \in NodeIds
\* a move from one room to another has been logged
C9_Witness ==
  \E t \in Idx(transitions) :
    /\ transitions[t].fromNodeId \in NodeIds
    /\ transitions[t].toNodeId \in NodeIds
    /\ transitions[t].fromNodeId # transitions[t].toNodeId

\* a step of a sendMessage handler: it leaves the await it was at
SendStep ==
  \E h \in InFlight("send") : CopiesIn(h, handlers') < CopiesIn(h, handlers)
\* C10: every Message's nodeId is the id of a Room in the collection, and no
\* step of a sendMessage handler adds a Room.
C10_MessageRefs ==
  [][ /\ \A m \in Idx(messages') : messages'[m].nodeId \in Idx(nodes')
      /\ SendStep => Len(nodes') = Len(nodes) ]_vars
\* a message has been persisted and counted
C10_Witness ==
  \E m \in Idx(messages) :
    /\ messages[m].nodeId \in NodeIds
    /\ nodes[messages[m].nodeId].messageCount > 0

\* the Message rows of room id
MessagesOf(id) == {m \in Idx(messages) : messages[m].nodeId = id}
\* C11: whenever no event handler is in flight, each Room's visitCount is
\* the number of Transition rows into it and its messageCount the number of
\* Message rows of it.
C11_CountersMatchLogs ==
  handlers = EmptyBag =>
    \A i \in NodeIds :
      /\ nodes[i].visitCount = Cardinality(TransitionsInto(i))
      /\ nodes[i].messageCount = Cardinality(MessagesOf(i))
\* all handlers are done; some room was entered twice and holds a message
C11_Witness ==
  /\ handlers = EmptyBag
  /\ \E i \in NodeIds :
       /\ nodes[i].visitCount = 2 /\ Cardinality(TransitionsInto(i)) = 2
       /\ nodes[i].messageCount = 1 /\ Cardinality(MessagesOf(i)) = 1

\* the join handler h leaves the await it was at
JoinStepOf(h) ==
  h.kind = "join" /\ CopiesIn(h, handlers') < CopiesIn(h, handlers)
\* C12: every step of a join with fromKey # toKey leaves the visitCount of
\* each existing room as it was, except the destination's, which the
\* destination upsert raises by exactly 1; a room the source upsert creates
\* starts at visitCount 0 (one the destination upsert creates, at 1).
C12_VisitFrame ==
  [][ \A h \in BagToSet(handlers) :
        (JoinStepOf(h) /\ h.fromKey # h.toKey) =>
          /\ Len(nodes') >= Len(nodes)
          /\ \A i \in Idx(nodes) :
               /\ nodes'[i].roomKey = nodes[i].roomKey
               /\ nodes'[i].visitCount = nodes[i].visitCount +
                    (IF h.pc = "to" /\ nodes[i].roomKey = h.toKey THEN 1 ELSE 0)
          /\ \A i \in Idx(nodes') \ Idx(nodes) :
               \/ h.pc = "from" /\ nodes'[i].roomKey = h.fromKey
                                /\ nodes'[i].visitCount = 0
               \/ h.pc = "to" /\ nodes'[i].roomKey = h.toKey
                              /\ nodes'[i].visitCount = 1 ]_vars
\* a move out of a room that the move itself created as its source: the
\* source has visitCount 0, the destination has been counted
C12_Witness ==
  \E t \in Idx(transitions) :
    /\ transitions[t].fromNodeId \in NodeIds
    /\ transitions[t].toNodeId \in NodeIds
    /\ transitions[t].fromNodeId # transitions[t].toNodeId
    /\ nodes[transitions[t].fromNodeId].visitCount = 0
    /\ nodes[transitions[t].toNodeId].visitCount >= 1

\* the Transition rows of user u from row i on, in log order
RECURSIVE UserRows(_, _)
UserRows(u, i) ==
  IF i > Len(transitions) THEN <<>>
  ELSE IF transitions[i].userId = u
       THEN <<transitions[i]>> \o UserRows(u, i + 1)
       ELSE UserRows(u, i + 1)
\* the user entered at most once: no second INITIAL row, so no leave in between
EnteredOnce(r) ==
  Cardinality({k \in Idx(r) : r[k].transitionType = "INITIAL"}) <= 1
\* C13: for a user of the stock client whose rows all stem from this run and
\* who entered once and then only moved, the first Transition row has
\* fromNodeId null and every later row's fromNodeId is the toNodeId of the
\* user's row just before it.
C13_Chained ==
  \A c \in Conns :
    (cUserId[c] # NoId /\ transitions[1].userId # cUserId[c]) =>
      LET r == UserRows(cUserId[c], 1)
      IN  EnteredOnce(r) =>
            /\ r # <<>> => r[1].fromNodeId = NoId
            /\ \A k \in 2..Len(r) : r[k].fromNodeId = r[k - 1].toNodeId

\* the replies and broadcasts emitted so far
emitted == <<sessions, bcasts, hist, recs>>

\* a join event was dropped by the handler's guard in this step
JoinDropped ==
  \E c \in Conns : [conn |-> c, kind |-> "join"] \in dropped' \ dropped
SendRejected(h) ==
  /\ h.kind = "send" /\ h.pc = "findOne"
  /\ CopiesIn(h, handlers') < CopiesIn(h, handlers)
  /\ h.userId = NoId \/ NodeMatches(nodes, h.toKey) = {}
\* C15: a sendMessage without userId, or whose roomKey names no Room when
\* the handler looks it up, ends at that step: the collections are
\* unchanged, nothing is emitted and nothing of the handler remains.
C15_RejectedSendNoOp ==
  [][ \A h \in BagToSet(handlers) :
        SendRejected(h) =>
          /\ handlers' = handlers (-) SetToBag({h})
          /\ UNCHANGED <<store, rooms, emitted>> ]_vars
\* such a sendMessage has been handled, and no Message exists
C15_Witness ==
  /\ \E c \in Conns : [conn |-> c, kind |-> "send"] \in dropped
  /\ messages = <<>>

\* C17: every history reply went to the connection whose join produced it
\* and to no other.
C17_HistoryPrivate == \A r \in hist : r.to = {r.conn}
\* both connections joined the same room and each got its history reply:
\* the later reply was emitted while the other connection was attached
C17_Witness ==
  \E r1, r2 \in hist :
    /\ r1.conn # r2.conn /\ r1.key = r2.key
    /\ \A c \in Conns : connected[c] /\ rooms[c] = {r1.key}

\* C18: a non-null recommendedKey is never the key that was asked about and
\* is always the key of a stored Room.
C18_RecommendationExcludes ==
  \A r \in BagToSet(recs) :
    r.recommendedKey # NoKey =>
      /\ r.recommendedKey # r.roomKey
      /\ NodeMatches(nodes, r.recommendedKey) # {}
\* one request was answered null (its room was the only one) and a later
\* one with another room's key
C18_Witness ==
  \E r1, r2 \in BagToSet(recs) :
    /\ r1.recommendedKey = NoKey
    /\ r2.recommendedKey # NoKey /\ r2.recommendedKey # r2.roomKey

\* C16: a history reply for room R holds only rows of R, in ascending
\* createdAt order with rows of equal createdAt in insertion order, and is
\* the first min(n, 50) of R's n rows in that order.
C16_OldestFifty ==
  \A r \in hist :
    LET all == RoomMessages(messages, r.nodeId, 1)
    IN  r.msgs = SubSeq(all, 1, Min(Len(all), HistoryLimit))

\* the getRecommendation handler h leaves its await
RecStepOf(h) ==
  h.kind = "rec" /\ CopiesIn(h, handlers') < CopiesIn(h, handlers)
\* the one reply r that the step adds for handler h
RecReplyTo(h, r) ==
  /\ recs' = recs (+) SetToBag({r})
  /\ r.conn = h.conn /\ r.to = {h.conn} /\ r.roomKey = h.toKey
  /\ r.recommendedKey = NoKey <=>
       \A i \in NodeIds : nodes[i].roomKey = h.toKey
C20_AppendOnly ==
  [][ /\ Len(transitions') >= Len(transitions)
      /\ \A i \in Idx(transitions) : transitions'[i] = transitions[i]
      /\ Len(messages') >= Len(messages)
      /\ \A i \in Idx(messages) : messages'[i] = messages[i]
      /\ Len(users') >= Len(users)
      /\ \A i \in Idx(users) : users'[i].localId = users[i].localId
      /\ Len(nodes') >= Len(nodes)
      /\ \A i \in Idx(nodes) : nodes'[i].roomKey = nodes[i].roomKey ]_vars

\* a join and a message added rows to all four collections after the stored
\* ones, and the Transition row stored first is still the first
C20_Witness ==
  /\ handlers = EmptyBag
  /\ Len(transitions) >= 2 /\ Len(messages) >= 1
  /\ Len(users) >= 2 /\ Len(nodes) >= 2
  /\ transitions[1].transitionType = "INITIAL" /\ transitions[1].toNodeId = 1

\* the step in which the userSetup handler h completes against a stored User
SetupOfExisting(h) ==
  /\ h.kind = "userSetup"
  /\ CopiesIn(h, handlers') < CopiesIn(h, handlers)
  /\ UserMatches(users, h.localId) # {}
\* C21: a userSetup for an existing User overwrites exactly the attribution
\* fields that are present and non-empty in the event, with the event's
\* values, and leaves every other attribution field, the localId and
\* createdAt as stored; without attribution only nickname and lastSeenAt
\* change.  No other User document is touched.
C21_AttributionFrame ==
  [][ \A h \in BagToSet(handlers) : SetupOfExisting(h) =>
        LET u == UserIdOf(users, h.localId)
        IN  /\ Len(users') = Len(users)
            /\ \A i \in Idx(users) : i # u => users'[i] = users[i]
            /\ users'[u].localId = users[u].localId
            /\ users'[u].createdAt = users[u].createdAt
            /\ users'[u].nickname = h.nickname
            /\ users'[u].lastSeenAt = h.now
            /\ \A f \in UtmFields :
                 users'[u].utm[f] =
                   IF h.utmGiven /\ h.utm[f] # Missing /\ h.utm[f] # ""
                   THEN h.utm[f] ELSE users[u].utm[f] ]_vars

\* a setup of the stored User has been applied: its nickname and lastSeenAt
\* are the event's, utmSource was overwritten, utmMedium kept its stored
\* value and utmCampaign is still missing
C21_Witness ==
  /\ handlers = EmptyBag
  /\ Len(users) = 1
  /\ users[1].lastSeenAt > users[1].createdAt
  /\ users[1].nickname = NicknameOf("c1")
  /\ users[1].utm["source"] = "g"
  /\ users[1].utm["medium"] = "s"
  /\ users[1].utm["campaign"] = Missing

\* the step in which connection c disconnects
DisconnectOf(c) == connected[c] /\ ~connected'[c]
\* C22: a disconnect changes no User, Room, Transition or Message record:
\* the four collections are the same before and after the step that handles
\* it.
C22_DisconnectKeepsStore ==
  [][ (\E c \in Conns : DisconnectOf(c)) => UNCHANGED store ]_vars

\* a connection that entered a room has disconnected while its join handler
\* is still awaiting the store
C22_Witness ==
  \E c \in Conns :
    /\ ~connected[c]
    /\ cRoomKey[c] # NoKey
    /\ \E h \in InFlight("join") : h.conn = c

\* the value of parameter p in query q is missing, not a decimal number, or
\* zero or negative
IsMalformed(q, p) ==
  LET s == QueryValue(q, p)
  IN  \/ p \notin DOMAIN q
      \/ s = <<>>
      \/ \E i \in Idx(s) : ~IsDigit(s[i])
      \/ LeadingDigits(s, 1, 0) <= 0
\* C23: for every windowHours, limit or minVisits value that is missing,
\* non-numeric or out of range, the hot-rooms response is the one the
\* default of that parameter (24, 5, 1) gives over the same store, and never
\* an error.
C23_DefaultsOnMalformed ==
  \A r \in hotReplies :
    /\ r.status = 200
    /\ \A p \in HotParams :
         IsMalformed(r.query, p) =>
           r.body = HotBody(transitions, nodes,
                            [r.args EXCEPT ![p] = HotDefault(p)], r.now, r.order)

\* the place of the entry of room key in the grouping order of reply r
GroupPos(r, key) == CHOOSE k \in Idx(r.grouped) : r.grouped[k].roomKey = key
InWindow(key, now, hours) ==
  {t \in Idx(transitions) :
     /\ nodes[transitions[t].toNodeId].roomKey = key
     /\ transitions[t].createdAt >= now - hours}
\* C25: every entry of the hot-rooms response has totalVisits equal to the
\* number of Transition rows into that room created within the last
\* windowHours, and at least minVisits; a room without a transition inside
\* the window is in no response, whatever its visitCount.
C25_VisitsInWindow ==
  \A r \in hotReplies :
    /\ \A k \in Idx(r.body) :
         /\ r.body[k].totalVisits =
              Cardinality(InWindow(r.body[k].roomKey, r.now, r.args["hours"]))
         /\ r.body[k].totalVisits >= r.args["minVisits"]
    /\ \A i \in Idx(nodes) :
         InWindow(nodes[i].roomKey, r.now, r.args["hours"]) = {} =>
           \A k \in Idx(r.body) : r.body[k].roomKey # nodes[i].roomKey

\* a response with an entry whose totalVisits is less than the room's stored
\* visitCount, while a room visited only before the window and a room with
\* fewer than minVisits = 2 visits in the window are left out
C25_Witness ==
  \E r \in hotReplies :
    /\ r.args["minVisits"] = 2
    /\ \E k \in Idx(r.body), i \in Idx(nodes) :
         /\ nodes[i].roomKey = r.body[k].roomKey
         /\ r.body[k].totalVisits < nodes[i].visitCount
    /\ \E i \in Idx(nodes) :
         /\ nodes[i].visitCount > 0
         /\ InWindow(nodes[i].roomKey, r.now, r.args["hours"]) = {}
    /\ \E i \in Idx(nodes) :
         /\ Cardinality(InWindow(nodes[i].roomKey, r.now, r.args["hours"])) = 1
         /\ \A k \in Idx(r.body) : r.body[k].roomKey # nodes[i].roomKey

\* C26: when a store operation fails while a userSetup, joinRoom,
\* sendMessage or getRecommendation event is handled, its handler ends
\* there: the step writes nothing to the store, changes no fan-out
\* membership, emits no reply or broadcast, and leaves no handler behind to
\* retry; what the handler did before the failure stays.
C26_FailureStopsHandler ==
  [][ failed' # failed =>
        /\ \E h \in BagToSet(handlers) : handlers' = Finish(h)
        /\ UNCHANGED <<store, rooms, emitted, client, dropped>> ]_vars

\* the first browser's join failed at Transition.create: room "A" exists
\* with its visit counted, and nothing after that step happened: no
\* Transition row, no membership, no history reply, no handler left
C26_Witness ==
  /\ failed = 1
  /\ InFlight("join") = {} /\ InFlight("userSetup") = {}
  /\ cRoomKey["c1"] = "A"
  /\ \E i \in NodeIds : nodes[i].roomKey = "A" /\ nodes[i].visitCount = 1
  /\ Len(transitions) = 1
  /\ rooms["c1"] = {}
  /\ hist = {}

\* C29: in every reachable state, in the middle of a handler and after a
\* failed store operation included, each Room's visitCount is at least the
\* number of Transition rows into it and its messageCount at most the
\* number of Message rows in it.
C29_CountersBracketLogs ==
  \A i \in NodeIds :
    /\ nodes[i].visitCount >= Cardinality(TransitionsInto(i))
    /\ nodes[i].messageCount <= Cardinality(MessagesOf(i))

\* after a failed store call and with no join in flight, a room's visitCount
\* exceeds its Transition rows, while a persisted message is not counted yet
C29_Witness ==
  /\ failed = 1
  /\ InFlight("join") = {}
  /\ \E i \in NodeIds : nodes[i].visitCount > Cardinality(TransitionsInto(i))
  /\ \E i \in NodeIds : nodes[i].messageCount < Cardinality(MessagesOf(i))

\* C27: absent store failure, every join that carries a userId and a
\* toNodeKey is eventually answered with a history reply to the requesting
\* connection (unless that connection has gone), whatever the destination
\* room's message list holds.
C27_JoinAnswered ==
  \A c \in Conns :
    (\E h \in InFlight("join") : h.conn = c)
      ~> ((\E r \in hist : r.conn = c) \/ ~connected[c])

\* C28: whenever no event is in flight, a connected client's currentRoomKey
\* is the key of the one room the server has its socket attached to, and is
\* null exactly when the socket is attached to no room.
C28_ClientRoomMatches ==
  handlers = EmptyBag =>
    \A c \in Conns :
      connected[c] =>
        rooms[c] = (IF cRoomKey[c] = NoKey THEN {} ELSE {cRoomKey[c]})

\* the step in which send handler h makes its receiveMessage broadcast
BroadcastOf(h) ==
  /\ h.kind = "send" /\ h.pc = "findById"
  /\ CopiesIn(h, handlers') < CopiesIn(h, handlers)
  /\ bcasts' # bcasts
\* the Message rows of room id that no handler has yet to count
Counted(id) ==
  {m \in MessagesOf(id) : \A h \in InFlight("send") : h.pc = "update" => h.msgId # m}
\* C30: a receiveMessage broadcast is made for a Message row that is already
\* stored, belongs to the room whose key the broadcast is addressed to and
\* is already counted in that room's messageCount; a persisted message is
\* broadcast at most once.
C30_BroadcastAfterPersist ==
  [][ \A h \in BagToSet(handlers) : BroadcastOf(h) =>
        /\ h.msgId \in Idx(messages)
        /\ messages[h.msgId].nodeId = NodeFindOne(nodes, h.toKey)
        /\ h.msgId \in Counted(messages[h.msgId].nodeId)
        /\ nodes[messages[h.msgId].nodeId].messageCount
             >= Cardinality(Counted(messages[h.msgId].nodeId))
        /\ \A b \in bcasts : b.msgId # h.msgId
        /\ \E b \in bcasts' : b.msgId = h.msgId /\ b.key = h.toKey ]_vars

\* a message was persisted, counted and then broadcast to the sockets of its
\* room, and its handler has finished
C30_Witness ==
  /\ InFlight("send") = {}
  /\ \E b \in bcasts :
       /\ b.targets # {}
       /\ b.msgId \in Idx(messages)
       /\ nodes[messages[b.msgId].nodeId].roomKey = b.key
       /\ nodes[messages[b.msgId].nodeId].messageCount = 1

\* C31: every entry of a hot-rooms response computed from transitions that
\* joins logged has a total (hence average) dwell of at least 0, a dwell
\* component between 0 and 0.3, and visit, user and dwell components that
\* together lie between 0 and 1.6
C31_DwellInRange ==
  \A r \in hotReplies : \A k \in Idx(r.body) :
    LET e == r.body[k]
        parts == normalizedVisits(e) * 5 + normalizedUsers(e) * 8
                   + normalizedDuration(e) * 3
    IN  /\ e.totalDuration >= 0
        /\ normalizedDuration(e) * 3 >= 0
        /\ normalizedDuration(e) * 3 <= 3000000
        /\ parts >= 0
        /\ parts <= 16000000

====
